---- MODULE Spec2Model ----
(***************************************************************************)
(* Job-search tracking backend (Django + Django REST Framework).           *)
(*                                                                         *)
(* Three tables: JobSite, JobApplication (FK job_site, CASCADE) and        *)
(* ApplicationTimeline (FK application, CASCADE).  Three ModelViewSets     *)
(* registered on a DefaultRouter expose create / update / delete for each  *)
(* table, plus the custom actions dashboard_stats, mark_visited,           *)
(* mark_completed, timeline, archive, unarchive and stats.                 *)
(*                                                                         *)
(* settings.py sets no ATOMIC_REQUESTS and no view opens a transaction,    *)
(* so every ORM query of a handler commits by itself and the queries of    *)
(* other requests run in between.  A handler is therefore a chain of       *)
(* steps, one per query; calls holds the requests in progress, each with   *)
(* what it has read so far (a bag: two requests can hold the same).  The   *)
(* step that ends a request writes req and resp; every other step clears   *)
(* them.                                                                   *)
(*                                                                         *)
(* The database is SQLite with foreign keys enforced at commit: a          *)
(* statement or transaction that would leave a row without its parent      *)
(* fails with IntegrityError (HTTP 500) and changes nothing.               *)
(*                                                                         *)
(* Text fields that no handler reads (name, url, position, company, ...)   *)
(* are left out of the rows; title stands for the free-text fields of a    *)
(* timeline event.                                                         *)
(***************************************************************************)
EXTENDS Integers, Sequences, FiniteSets, Bags, TLC

VARIABLES
    sites,      \* JobSite rows:             pk -> row
    apps,       \* JobApplication rows:      pk -> row
    events,     \* ApplicationTimeline rows: pk -> row
    nextSite,   \* next primary key of each table (AUTOINCREMENT: never reused)
    nextApp,
    nextEvent,
    now,        \* the clock read by auto_now / auto_now_add
    req,        \* the request answered by the last step, if it answered one
    resp,       \* its response
    calls       \* the requests in progress: a bag of what each handler holds

vars == <<sites, apps, events, nextSite, nextApp, nextEvent, now, req, resp, calls>>
db   == <<sites, apps, events, nextSite, nextApp, nextEvent>>

\* ---------------------------------------------------------------- bounds
MaxRows  == 3     \* rows ever created, over the three tables
MaxTime  == 1     \* clock ticks
MaxCalls == 2     \* requests in progress at once
MaxSites == 2     \* sites ever created
MaxRacing == 3    \* requests in progress at once, where a workload is over JobSite alone

\* ------------------------------------------------- models.py choice sets
SITE_TYPES     == {"job_board", "company", "challenge", "freelance"}
COUNTRIES      == {"BR", "US", "CA", "UK", "DE", "FR", "ES", "PT", "OTHER"}
LANGUAGES      == {"pt", "en", "es", "fr", "de", "other"}
WORK_AREAS     == {"tech", "design", "marketing", "sales", "finance", "hr", "general"}
STATUS_CHOICES == {"applied", "interview", "rejected", "accepted", "pending", "archived"}
EVENT_TYPES    == {"applied", "viewed", "interview_scheduled", "interview_completed",
                   "feedback", "rejected", "accepted", "other"}

\* The choices= of the four choice fields of JobSite.
SiteChoices == [site_type |-> SITE_TYPES, country |-> COUNTRIES,
                language |-> LANGUAGES, work_area |-> WORK_AREAS]

\* The writable fields of each serializer (fields = '__all__' without the
\* auto_now / auto_now_add columns, which are not editable).
SiteFields  == {"site_type", "country", "language", "work_area", "visited", "is_completed"}
AppFields   == {"job_site", "status", "is_archived"}
EventFields == {"application", "event_type", "title"}

\* ------------------------------------------------------- request bodies
\* A request body d: the fields it carries (d.has), their values (d.val; a
\* value of a field outside d.has is not read) and whether the request is
\* a PATCH (d.partial), for which no field is required.
\*
\* The modelled clients send members of the choice sets and one value
\* outside each.  A JobSite body carries its four choice fields, all of
\* them valid or one of them not, with or without the two flags; a PATCH
\* carries the country alone or one flag alone.
ValidSite == [site_type |-> "job_board", country |-> "US",
              language |-> "en", work_area |-> "tech"]
SiteChoiceInputs == {ValidSite} \cup {[ValidSite EXCEPT ![f] = "bogus"] : f \in DOMAIN ValidSite}
SiteVal(ch, v, c) == [site_type |-> ch.site_type, country |-> ch.country,
                      language |-> ch.language, work_area |-> ch.work_area,
                      visited |-> v, is_completed |-> c]
SitePosts ==
    {[partial |-> FALSE, has |-> SiteFields, val |-> SiteVal(ch, v, c)] :
        ch \in SiteChoiceInputs, v \in BOOLEAN, c \in BOOLEAN}
SitePuts ==
    SitePosts \cup
    {[partial |-> FALSE, has |-> DOMAIN SiteChoices, val |-> SiteVal(ValidSite, FALSE, FALSE)]}
SitePatches ==
    {[partial |-> TRUE, has |-> {"country"},
      val |-> SiteVal([ValidSite EXCEPT !.country = x], FALSE, FALSE)] : x \in {"BR", "bogus"}}
    \cup {[partial |-> TRUE, has |-> {"visited"}, val |-> SiteVal(ValidSite, v, FALSE)] :
             v \in BOOLEAN}
\* The bodies of that set that pass the choice validation.
ValidSiteBodies(D) == {d \in D : \A f \in d.has \cap DOMAIN SiteChoices :
                                     d.val[f] \in SiteChoices[f]}

StatusInputs    == {"applied", "rejected", "bogus"}
EventTypeInputs == {"applied", "feedback", "bogus"}
TitleInputs     == {"t1"}

\* Primary keys the modelled clients address: every key handed out so far
\* (its row may be deleted since) and one that was never handed out.
SitePks  == 1..nextSite
AppPks   == 1..nextApp
EventPks == 1..nextEvent

AppVal(js, st, ar) == [job_site |-> js, status |-> st, is_archived |-> ar]
AppPosts ==
    {[partial |-> FALSE, has |-> AppFields, val |-> AppVal(js, st, ar)] :
        js \in SitePks, st \in StatusInputs, ar \in BOOLEAN}
AppPatches ==
    {[partial |-> TRUE, has |-> {"status"}, val |-> AppVal(0, st, FALSE)] : st \in StatusInputs}
    \cup {[partial |-> TRUE, has |-> {"job_site"}, val |-> AppVal(js, "applied", FALSE)] :
             js \in SitePks}

EventVal(ap, et, ti) == [application |-> ap, event_type |-> et, title |-> ti]
EventPosts ==
    {[partial |-> FALSE, has |-> EventFields, val |-> EventVal(ap, et, ti)] :
        ap \in AppPks, et \in EventTypeInputs, ti \in TitleInputs}

\* The clock readings a later now() of the same step can return.
Later == now..MaxTime

EmptyTable == [x \in {} |-> x]

\* Rows created so far.
RowsCreated == (nextSite - 1) + (nextApp - 1) + (nextEvent - 1)

\* ------------------------------------------------------------ ORM helpers
\* Collector.collect() on JobApplication.job_site (on_delete=CASCADE): the
\* applications that reference a site of S.
AppsOfSites(S) == {a \in DOMAIN apps : apps[a].job_site \in S}

\* ApplicationTimeline.objects.filter(application__in=A): the fast delete of
\* ApplicationTimeline.application (on_delete=CASCADE).
EventsOfApps(A) == {e \in DOMAIN events : events[e].application \in A}

\* A table without the rows whose pk is in D.
Without(table, D) == [k \in (DOMAIN table) \ D |-> table[k]]

\* Mutation: PRAGMA foreign_keys off.
ForeignKeyCheck_Off(S, A, E) == TRUE

\* The foreign-key check of SQLite at commit, on the tables the statement
\* or transaction would leave.
ForeignKeyCheck(S, A, E) ==
    /\ \A a \in DOMAIN A : A[a].job_site \in DOMAIN S
    /\ \A e \in DOMAIN E : E[e].application \in DOMAIN A

\* The sequences that list every element of S once, by key[_] descending
\* (ORDER BY key DESC; the order among equal keys is the database's choice).
OrderingsDesc(S, key) ==
    {o \in [1..Cardinality(S) -> S] :
        /\ \A i, j \in DOMAIN o : i # j => o[i] # o[j]
        /\ \A i, j \in DOMAIN o : i < j => key[o[i]] >= key[o[j]]}

\* ------------------------------------------------------------ serializers
\* obj.applications.count()
ApplicationsCount(s) == Cardinality({a \in DOMAIN apps : apps[a].job_site = s})

\* JobSiteSerializer: all model fields of the instance and applications_count.
SerializeSite(s, row, count) ==
    [id                 |-> s,
     site_type          |-> row.site_type,
     country            |-> row.country,
     language           |-> row.language,
     work_area          |-> row.work_area,
     visited            |-> row.visited,
     is_completed       |-> row.is_completed,
     created_at         |-> row.created_at,
     updated_at         |-> row.updated_at,
     applications_count |-> count]

\* ApplicationTimelineSerializer: all model fields.
SerializeEvent(e, row) ==
    [id          |-> e,
     application |-> row.application,
     event_type  |-> row.event_type,
     title       |-> row.title,
     date        |-> row.date]

EventDate == [e \in DOMAIN events |-> events[e].date]

\* instance.timeline.all(), serialized: the related manager of the nested
\* read-only field, in Meta.ordering (-date).
TimelineOf(a) ==
    {[k \in DOMAIN o |-> SerializeEvent(o[k], events[o[k]])] :
        o \in OrderingsDesc(EventsOfApps({a}), EventDate)}

\* JobApplicationSerializer: all model fields of the instance and the
\* nested timeline tl.  (job_site_name reads a text field of the site; a
\* site deleted meanwhile gives null, not an error.)
SerializeApplication(a, row, tl) ==
    [id           |-> a,
     job_site     |-> row.job_site,
     status       |-> row.status,
     is_archived  |-> row.is_archived,
     applied_date |-> row.applied_date,
     timeline     |-> tl]

\* ---------------------------------------------------------------- replies
NoReq  == [op |-> "none", pk |-> 0]
NoResp == [code |-> 0, body |-> "none"]

\* The step answers no request.
Quiet == req' = NoReq /\ resp' = NoResp

\* The step answers a request.
Reply(op, pk, code, body) ==
    /\ req'  = [op |-> op, pk |-> pk]
    /\ resp' = [code |-> code, body |-> body]

\* get_object(): get_object_or_404 on the viewset's queryset.
NotFound(op, pk) == Reply(op, pk, 404, "not_found")

\* serializer.is_valid(raise_exception=True): 400 with the failing fields.
Invalid(op, pk, fields) == Reply(op, pk, 400, fields)

\* An IntegrityError no handler catches: 500.
IntegrityError(op, pk) == Reply(op, pk, 500, "IntegrityError")

\* ------------------------------------------------- requests in progress
\* The request c has come to pc of the handler op.
At(c, op, pc) == c.op = op /\ c.pc = pc

\* The requests in progress, as a set.
InProgress == BagToSet(calls)

\* The modelled clients keep fewer than n requests in progress.
Open(n) == BagCardinality(calls) < n

\* JobSite.objects.count() and the two filtered counts.
TotalSites     == Cardinality(DOMAIN sites)
VisitedSites   == Cardinality({s \in DOMAIN sites : sites[s].visited})
CompletedSites == Cardinality({s \in DOMAIN sites : sites[s].is_completed})

\* The three counts of one state of the JobSite table.
Snapshot == [total |-> TotalSites, visited |-> VisitedSites, completed |-> CompletedSites]

\* A dashboard_stats call in progress sees the table pass through the
\* state this step leaves.  seen is the record of the states it has seen
\* in which the counts it has read so far hold: the states its response
\* can still be the counts of.
Agrees(c, s) ==
    /\ s.total = c.total
    /\ c.pc = "count_completed" => s.visited = c.visited

Watch(c) ==
    IF c.op = "dashboard_stats" /\ Agrees(c, Snapshot')
    THEN [c EXCEPT !.seen = @ \cup {Snapshot'}]
    ELSE c

RECURSIVE Copies(_, _)
\* The number of requests of the bag B that hold a member of C.
Copies(B, C) ==
    IF C = {} THEN 0
    ELSE LET c == CHOOSE x \in C : TRUE
         IN B[c] + Copies(B, C \ {c})

\* The requests of B after the step, each dashboard_stats call having seen
\* the state it leaves.
Watched(B) ==
    IF \A c \in BagToSet(B) : c.op # "dashboard_stats"
    THEN B
    ELSE LET after == {Watch(c) : c \in BagToSet(B)}
         IN [d \in after |-> Copies(B, {c \in BagToSet(B) : Watch(c) = d})]

\* The step starts a request, which now holds c.
Started(c) == calls' = Watched(calls) (+) SetToBag({c})

\* After the step the request that held c holds d.
Then(c, d) == calls' = Watched(calls (-) SetToBag({c})) (+) SetToBag({d})

\* The step ends the request that held c.
Finished(c) == calls' = Watched(calls (-) SetToBag({c}))

\* Creates that have passed validation and not yet inserted.
PendingCreates ==
    Copies(calls, {c \in InProgress : /\ c.op \in {"app_create", "event_create"}
                                       /\ c.pc = "valid"})

\* The modelled clients create MaxRows rows at most.
Room == RowsCreated + PendingCreates < MaxRows

Init ==
    /\ sites = EmptyTable
    /\ apps = EmptyTable
    /\ events = EmptyTable
    /\ nextSite = 1
    /\ nextApp = 1
    /\ nextEvent = 1
    /\ now = 0
    /\ req = NoReq
    /\ resp = NoResp
    /\ calls = EmptyBag

\* Time passes.
Tick ==
    /\ now < MaxTime
    /\ now' = now + 1
    /\ Quiet
    /\ UNCHANGED <<db, calls>>

\* ------------------------------------------------------- JobSiteViewSet
\* Mutation: the choice fields declared without choices=.
SiteErrors_NoChoices(d) == {f \in DOMAIN SiteChoices : f \notin d.has /\ ~d.partial}

\* The fields of a JobSite body that fail validation: a choice field is
\* required unless the request is a PATCH, and takes a member of choices=.
SiteErrors(d) ==
    {f \in DOMAIN SiteChoices :
        IF f \in d.has THEN d.val[f] \notin SiteChoices[f] ELSE ~d.partial}

\* A JobSite instance before any field is assigned: the model defaults.
DefaultSite == [site_type |-> "", country |-> "", language |-> "", work_area |-> "",
                visited |-> FALSE, is_completed |-> FALSE,
                created_at |-> 0, updated_at |-> 0]

\* serializer.save(): the fields of the body are assigned to the instance,
\* every other attribute stays as loaded.
ApplyToSite(row, d) ==
    [site_type    |-> IF "site_type" \in d.has THEN d.val.site_type ELSE row.site_type,
     country      |-> IF "country" \in d.has THEN d.val.country ELSE row.country,
     language     |-> IF "language" \in d.has THEN d.val.language ELSE row.language,
     work_area    |-> IF "work_area" \in d.has THEN d.val.work_area ELSE row.work_area,
     visited      |-> IF "visited" \in d.has THEN d.val.visited ELSE row.visited,
     is_completed |-> IF "is_completed" \in d.has THEN d.val.is_completed ELSE row.is_completed,
     created_at   |-> row.created_at,
     updated_at   |-> row.updated_at]

\* INSERT of a JobSite instance: auto_now_add and auto_now read the clock
\* one after the other (pre_save of created_at, then of updated_at); u is
\* the second reading.
InsertSite(pk, row, u) ==
    sites @@ (pk :> [row EXCEPT !.created_at = now, !.updated_at = u])

\* UPDATE of a stored JobSite row by save(): every column of the instance
\* is written and auto_now sets updated_at.
UpdateSite(pk, row) == [sites EXCEPT ![pk] = [row EXCEPT !.updated_at = now]]

\* POST /api/job-sites/: validation and INSERT.
SiteCreate_Save(d, u) ==
    /\ Room
    /\ IF SiteErrors(d) # {}
       THEN /\ u = now
            /\ Invalid("site_create", 0, SiteErrors(d))
            /\ UNCHANGED <<db, now, calls>>
       ELSE /\ u \in Later
            /\ sites' = InsertSite(nextSite, ApplyToSite(DefaultSite, d), u)
            /\ nextSite' = nextSite + 1
            /\ now' = u
            /\ UNCHANGED <<apps, events, nextApp, nextEvent>>
            /\ Quiet
            /\ Started([op |-> "site_create", pc |-> "saved", pk |-> nextSite,
                        site |-> [ApplyToSite(DefaultSite, d) EXCEPT
                                      !.created_at = now, !.updated_at = u]])

\* serializer.data of the created site: applications_count is counted now.
SiteCreate_Data(c) ==
    /\ At(c, "site_create", "saved")
    /\ Reply("site_create", c.pk, 201,
             SerializeSite(c.pk, c.site, ApplicationsCount(c.pk)))
    /\ UNCHANGED <<db, now>>
    /\ Finished(c)

\* get_object() of a JobSiteViewSet handler: the row is loaded or the
\* request ends with 404.
GetSite(op, pk) ==
    /\ UNCHANGED <<db, now>>
    /\ IF pk \in DOMAIN sites
       THEN /\ Quiet
            /\ Started([op |-> op, pc |-> "loaded", pk |-> pk, site |-> sites[pk]])
       ELSE /\ NotFound(op, pk)
            /\ UNCHANGED calls

\* PUT or PATCH /api/job-sites/{pk}/: get_object().
SiteUpdate_GetObject(pk) == GetSite("site_update", pk)

\* Validation and save(): UPDATE of every column of the loaded instance
\* with the fields of the body assigned.  Where the UPDATE matches no row
\* (the row was deleted since get_object()), save() goes on to INSERT.
SiteUpdate_Save(c, d) ==
    /\ At(c, "site_update", "loaded")
    /\ UNCHANGED <<apps, events, nextSite, nextApp, nextEvent, now>>
    /\ IF SiteErrors(d) # {}
       THEN /\ Invalid("site_update", c.pk, SiteErrors(d))
            /\ UNCHANGED sites
            /\ Finished(c)
       ELSE /\ Quiet
            /\ IF c.pk \in DOMAIN sites
               THEN /\ sites' = UpdateSite(c.pk, ApplyToSite(c.site, d))
                    /\ Then(c, [c EXCEPT
                                  !.pc = "saved",
                                  !.site = [ApplyToSite(c.site, d) EXCEPT
                                               !.updated_at = now]])
               ELSE /\ UNCHANGED sites
                    /\ Then(c, [c EXCEPT !.pc = "insert",
                                                !.site = ApplyToSite(c.site, d)])

\* serializer.data of the updated site: applications_count is counted now.
SiteUpdate_Data(c) ==
    /\ At(c, "site_update", "saved")
    /\ Reply("site_update", c.pk, 200,
             SerializeSite(c.pk, c.site, ApplicationsCount(c.pk)))
    /\ UNCHANGED <<db, now>>
    /\ Finished(c)

\* DELETE /api/job-sites/{pk}/: get_object().
SiteDelete_GetObject(pk) == GetSite("site_delete", pk)

\* Collector.collect(): the applications that reference the site are
\* selected and kept as instances.
SiteDelete_Collect(c) ==
    /\ At(c, "site_delete", "loaded")
    /\ UNCHANGED <<db, now>>
    /\ Quiet
    /\ Then(c, [op |-> "site_delete", pc |-> "collected", pk |-> c.pk,
                apps |-> AppsOfSites({c.pk})])

\* Collector.delete(): one transaction deletes the timeline rows that
\* reference a collected application, the collected applications by pk
\* and the site.  An application that references the site and was not
\* collected fails the foreign-key check at commit.
SiteDelete_Delete(c) ==
    LET S == Without(sites, {c.pk})
        A == Without(apps, c.apps)
        E == Without(events, EventsOfApps(c.apps))
    IN /\ At(c, "site_delete", "collected")
       /\ UNCHANGED <<nextSite, nextApp, nextEvent, now>>
       /\ IF ForeignKeyCheck(S, A, E)
          THEN /\ sites' = S
               /\ apps' = A
               /\ events' = E
               /\ Reply("site_delete", c.pk, 204, "no_content")
          ELSE /\ UNCHANGED <<sites, apps, events>>
               /\ IntegrityError("site_delete", c.pk)
       /\ Finished(c)

\* Mutation: pending counted against the completed sites.
PendingSites_ByCompleted(total, visited, completed) == total - completed

\* pending_sites = total_sites - visited_sites
PendingSites(total, visited, completed) == total - visited

\* GET /api/job-sites/dashboard_stats/: JobSite.objects.count().
DashboardStats_CountTotal ==
    /\ UNCHANGED <<db, now>>
    /\ Quiet
    /\ Started([op |-> "dashboard_stats", pc |-> "count_visited",
                total |-> TotalSites, visited |-> 0, seen |-> {Snapshot}])

\* JobSite.objects.filter(visited=True).count()
DashboardStats_CountVisited(c) ==
    /\ At(c, "dashboard_stats", "count_visited")
    /\ UNCHANGED <<db, now>>
    /\ Quiet
    /\ Then(c, [c EXCEPT !.pc = "count_completed", !.visited = VisitedSites,
                          !.seen = {s \in @ : s.visited = VisitedSites}])

\* JobSite.objects.filter(is_completed=True).count(), the subtraction and
\* the response.
DashboardStats_CountCompleted(c) ==
    /\ At(c, "dashboard_stats", "count_completed")
    /\ UNCHANGED <<db, now>>
    /\ Reply("dashboard_stats", 0, 200,
             [total_sites     |-> c.total,
              visited_sites   |-> c.visited,
              completed_sites |-> CompletedSites,
              pending_sites   |-> PendingSites(c.total, c.visited,
                                               CompletedSites)])
    /\ Finished(c)

\* The acknowledgement of each transition.
Ack == [mark_visited |-> "marked as visited", mark_completed |-> "marked as completed",
        archive |-> "archived", unarchive |-> "unarchived"]

\* site.save() of a transition: UPDATE and the acknowledgement; where the
\* UPDATE matches no row, save() goes on to INSERT.
SaveSiteFlag(c, op, row) ==
    /\ UNCHANGED <<apps, events, nextSite, nextApp, nextEvent, now>>
    /\ IF c.pk \in DOMAIN sites
       THEN /\ sites' = UpdateSite(c.pk, row)
            /\ Reply(op, c.pk, 200, Ack[op])
            /\ Finished(c)
       ELSE /\ UNCHANGED sites
            /\ Quiet
            /\ Then(c, [c EXCEPT !.pc = "insert", !.site = row])

\* POST /api/job-sites/{pk}/mark_visited/: site = self.get_object()
MarkVisited_GetObject(pk) == GetSite("mark_visited", pk)

\* site.visited = True; site.save(); the response.
MarkVisited_Save(c) ==
    /\ At(c, "mark_visited", "loaded")
    /\ SaveSiteFlag(c, "mark_visited", [c.site EXCEPT !.visited = TRUE])

\* POST /api/job-sites/{pk}/mark_completed/: site = self.get_object()
MarkCompleted_GetObject(pk) == GetSite("mark_completed", pk)

\* site.is_completed = True; site.save(); the response.
MarkCompleted_Save(c) ==
    /\ At(c, "mark_completed", "loaded")
    /\ SaveSiteFlag(c, "mark_completed", [c.site EXCEPT !.is_completed = TRUE])

\* The INSERT of a save() whose UPDATE matched no row: the site comes back
\* under its old pk with new timestamps, unless another request has
\* inserted that pk meanwhile (IntegrityError: the pk is unique).  A
\* transition then answers; an update goes on to serializer.data.
JobSite_Insert(c, u) ==
    /\ c.op \in {"site_update", "mark_visited", "mark_completed"}
    /\ c.pc = "insert"
    /\ UNCHANGED <<apps, events, nextSite, nextApp, nextEvent>>
    /\ IF c.pk \in DOMAIN sites
       THEN /\ u = now
            /\ UNCHANGED <<sites, now>>
            /\ IntegrityError(c.op, c.pk)
            /\ Finished(c)
       ELSE /\ u \in Later
            /\ sites' = InsertSite(c.pk, c.site, u)
            /\ now' = u
            /\ IF c.op = "site_update"
               THEN /\ Quiet
                    /\ Then(c, [c EXCEPT
                                  !.pc = "saved",
                                  !.site = [c.site EXCEPT
                                               !.created_at = now, !.updated_at = u]])
               ELSE /\ Reply(c.op, c.pk, 200, Ack[c.op])
                    /\ Finished(c)

\* ------------------------------------------------ JobApplicationViewSet
\* The fields of a JobApplication body that fail validation: job_site is a
\* required primary-key related field over JobSite.objects.all() (the
\* site is looked up), status a choice with a default.
AppErrors(d) ==
    (IF "job_site" \in d.has
     THEN IF d.val.job_site \in DOMAIN sites THEN {} ELSE {"job_site"}
     ELSE IF d.partial THEN {} ELSE {"job_site"})
        \cup (IF "status" \in d.has /\ d.val.status \notin STATUS_CHOICES
              THEN {"status"} ELSE {})

\* A JobApplication instance before any field is assigned.
DefaultApp == [job_site |-> 0, status |-> "applied", is_archived |-> FALSE,
               applied_date |-> 0]

\* serializer.save(): the fields of the body are assigned to the instance.
ApplyToApp(row, d) ==
    [job_site     |-> IF "job_site" \in d.has THEN d.val.job_site ELSE row.job_site,
     status       |-> IF "status" \in d.has THEN d.val.status ELSE row.status,
     is_archived  |-> IF "is_archived" \in d.has THEN d.val.is_archived ELSE row.is_archived,
     applied_date |-> row.applied_date]

\* INSERT of a JobApplication instance: auto_now_add sets applied_date.
InsertApp(pk, row) == apps @@ (pk :> [row EXCEPT !.applied_date = now])

\* UPDATE of a stored JobApplication row by save(): every column of the
\* instance is written.
UpdateApp(pk, row) == [apps EXCEPT ![pk] = row]

\* POST /api/applications/: validation (the site is looked up).
AppCreate_Validate(d) ==
    /\ Room
    /\ UNCHANGED <<db, now>>
    /\ IF AppErrors(d) # {}
       THEN /\ Invalid("app_create", 0, AppErrors(d))
            /\ UNCHANGED calls
       ELSE /\ Quiet
            /\ Started([op |-> "app_create", pc |-> "valid", data |-> d])

\* serializer.save(): INSERT.  A site deleted since the validation fails
\* the foreign-key check.
AppCreate_Save(c) ==
    LET A == InsertApp(nextApp, ApplyToApp(DefaultApp, c.data))
    IN /\ At(c, "app_create", "valid")
       /\ UNCHANGED <<sites, events, nextSite, nextEvent, now>>
       /\ IF ForeignKeyCheck(sites, A, events)
          THEN /\ apps' = A
               /\ nextApp' = nextApp + 1
               /\ Quiet
               /\ Then(c, [op |-> "app_create", pc |-> "saved", pk |-> nextApp,
                           app |-> A[nextApp]])
          ELSE /\ UNCHANGED <<apps, nextApp>>
               /\ IntegrityError("app_create", 0)
               /\ Finished(c)

\* serializer.data of the created application: the nested timeline is
\* queried now.
AppCreate_Data(c) ==
    /\ At(c, "app_create", "saved")
    /\ UNCHANGED <<db, now>>
    /\ \E tl \in TimelineOf(c.pk) :
           Reply("app_create", c.pk, 201,
                 SerializeApplication(c.pk, c.app, tl))
    /\ Finished(c)

\* get_object() of a JobApplicationViewSet handler.
GetApp(op, pk) ==
    /\ UNCHANGED <<db, now>>
    /\ IF pk \in DOMAIN apps
       THEN /\ Quiet
            /\ Started([op |-> op, pc |-> "loaded", pk |-> pk, app |-> apps[pk]])
       ELSE /\ NotFound(op, pk)
            /\ UNCHANGED calls

\* PUT or PATCH /api/applications/{pk}/: get_object().
AppUpdate_GetObject(pk) == GetApp("app_update", pk)

\* Validation (the site of the body is looked up).
AppUpdate_Validate(c, d) ==
    /\ At(c, "app_update", "loaded")
    /\ UNCHANGED <<db, now>>
    /\ IF AppErrors(d) # {}
       THEN /\ Invalid("app_update", c.pk, AppErrors(d))
            /\ Finished(c)
       ELSE /\ Quiet
            /\ Then(c, [op |-> "app_update", pc |-> "valid", pk |-> c.pk,
                        app |-> ApplyToApp(c.app, d)])

\* serializer.save() of the update: UPDATE of every column of the
\* instance, checked against the foreign key.  Where the UPDATE matches no
\* row (the row was deleted since get_object()), save() goes on to INSERT.
AppUpdate_Save(c) ==
    /\ At(c, "app_update", "valid")
    /\ UNCHANGED <<sites, events, nextSite, nextApp, nextEvent, now>>
    /\ IF c.pk \notin DOMAIN apps
       THEN /\ UNCHANGED apps
            /\ Quiet
            /\ Then(c, [c EXCEPT !.pc = "insert"])
       ELSE IF ForeignKeyCheck(sites, UpdateApp(c.pk, c.app), events)
       THEN /\ apps' = UpdateApp(c.pk, c.app)
            /\ Quiet
            /\ Then(c, [c EXCEPT !.pc = "saved"])
       ELSE /\ UNCHANGED apps
            /\ IntegrityError("app_update", c.pk)
            /\ Finished(c)

\* serializer.data of the updated application: the nested timeline is
\* queried now.
AppUpdate_Data(c) ==
    /\ At(c, "app_update", "saved")
    /\ UNCHANGED <<db, now>>
    /\ \E tl \in TimelineOf(c.pk) :
           Reply("app_update", c.pk, 200,
                 SerializeApplication(c.pk, c.app, tl))
    /\ Finished(c)

\* DELETE /api/applications/{pk}/: get_object().
AppDelete_GetObject(pk) == GetApp("app_delete", pk)

\* Collector.delete(): one transaction deletes the timeline rows that
\* reference the application (selected inside the transaction) and the
\* application by pk.
AppDelete_Delete(c) ==
    /\ At(c, "app_delete", "loaded")
    /\ events' = Without(events, EventsOfApps({c.pk}))
    /\ apps'   = Without(apps, {c.pk})
    /\ UNCHANGED <<sites, nextSite, nextApp, nextEvent, now>>
    /\ Reply("app_delete", c.pk, 204, "no_content")
    /\ Finished(c)

\* Mutation: the is_archived filter is left out.
ActiveApplications_All == DOMAIN apps

\* JobApplication.objects.filter(is_archived=False)
ActiveApplications == {a \in DOMAIN apps : ~apps[a].is_archived}

AppliedDate == [a \in DOMAIN apps |-> apps[a].applied_date]

\* .order_by('-applied_date')
TimelineOrderings == OrderingsDesc(ActiveApplications, AppliedDate)

\* GET /api/applications/timeline/: the queryset is evaluated, whole (the
\* action does not paginate); the handler holds the instances in order.
AppTimeline_List ==
    /\ UNCHANGED <<db, now>>
    /\ \E o \in TimelineOrderings :
          IF o = <<>>
          THEN /\ Reply("timeline", 0, 200, <<>>)
               /\ UNCHANGED calls
          ELSE /\ Quiet
               /\ Started([op |-> "timeline", pc |-> "nested",
                           rows |-> [k \in DOMAIN o |-> [id |-> o[k], app |-> apps[o[k]]]],
                           body |-> <<>>])

\* The next instance is serialized: its nested timeline is queried now.
\* After the last one the response goes out.
AppTimeline_Nested(c) ==
    /\ At(c, "timeline", "nested")
    /\ UNCHANGED <<db, now>>
    /\ LET r == c.rows[Len(c.body) + 1]
       IN \E tl \in TimelineOf(r.id) :
              LET body == Append(c.body, SerializeApplication(r.id, r.app, tl))
              IN IF Len(body) = Len(c.rows)
                 THEN /\ Reply("timeline", 0, 200, body)
                      /\ Finished(c)
                 ELSE /\ Quiet
                      /\ Then(c, [c EXCEPT !.body = body])

\* application.save() of a transition: UPDATE of every column of the
\* loaded instance with the flag assigned, checked against the foreign
\* key, and the acknowledgement; where the UPDATE matches no row, save()
\* goes on to INSERT.
SaveAppFlag(c, op, row) ==
    /\ UNCHANGED <<sites, events, nextSite, nextApp, nextEvent, now>>
    /\ IF c.pk \notin DOMAIN apps
       THEN /\ UNCHANGED apps
            /\ Quiet
            /\ Then(c, [c EXCEPT !.pc = "insert", !.app = row])
       ELSE IF ForeignKeyCheck(sites, UpdateApp(c.pk, row), events)
       THEN /\ apps' = UpdateApp(c.pk, row)
            /\ Reply(op, c.pk, 200, Ack[op])
            /\ Finished(c)
       ELSE /\ UNCHANGED apps
            /\ IntegrityError(op, c.pk)
            /\ Finished(c)

\* POST /api/applications/{pk}/archive/: application = self.get_object()
Archive_GetObject(pk) == GetApp("archive", pk)

\* application.is_archived = True; application.save(); the response.
Archive_Save(c) ==
    /\ At(c, "archive", "loaded")
    /\ SaveAppFlag(c, "archive", [c.app EXCEPT !.is_archived = TRUE])

\* Mutation: filter(pk=pk).update(is_archived=False) in place of
\* get_object() and save(): a missing row is not noticed.
Unarchive_GetObject_Lenient(pk) ==
    /\ apps' = [a \in DOMAIN apps |->
                  IF a = pk THEN [apps[a] EXCEPT !.is_archived = FALSE] ELSE apps[a]]
    /\ UNCHANGED <<sites, events, nextSite, nextApp, nextEvent, now, calls>>
    /\ Reply("unarchive", pk, 200, "unarchived")

\* POST /api/applications/{pk}/unarchive/: application = self.get_object()
Unarchive_GetObject(pk) == GetApp("unarchive", pk)

\* application.is_archived = False; application.save(); the response.
Unarchive_Save(c) ==
    /\ At(c, "unarchive", "loaded")
    /\ SaveAppFlag(c, "unarchive", [c.app EXCEPT !.is_archived = FALSE])

\* The INSERT of a save() whose UPDATE matched no row: the application
\* comes back under its old pk with a new applied_date, unless its pk was
\* inserted meanwhile or its site is gone (IntegrityError).  A transition
\* then answers; an update goes on to serializer.data.
JobApplication_Insert(c) ==
    /\ c.op \in {"app_update", "archive", "unarchive"}
    /\ c.pc = "insert"
    /\ UNCHANGED <<sites, events, nextSite, nextApp, nextEvent, now>>
    /\ IF \/ c.pk \in DOMAIN apps
          \/ ~ForeignKeyCheck(sites, InsertApp(c.pk, c.app), events)
       THEN /\ UNCHANGED apps
            /\ IntegrityError(c.op, c.pk)
            /\ Finished(c)
       ELSE /\ apps' = InsertApp(c.pk, c.app)
            /\ IF c.op = "app_update"
               THEN /\ Quiet
                    /\ Then(c, [c EXCEPT
                                  !.pc = "saved",
                                  !.app = [c.app EXCEPT !.applied_date = now]])
               ELSE /\ Reply(c.op, c.pk, 200, Ack[c.op])
                    /\ Finished(c)

\* .values('status'): the columns the query groups by.  Meta.ordering of
\* JobApplication is not part of the grouping.
GroupKey(a) == <<apps[a].status>>

\* .values('status').annotate(count=Count('status')): one row per group, as
\* a bag of rows.
ByStatus ==
    LET keys   == {GroupKey(a) : a \in DOMAIN apps}
        row(k) == [status |-> k[1],
                   count  |-> Cardinality({a \in DOMAIN apps : GroupKey(a) = k})]
        rows   == {row(k) : k \in keys}
    IN [r \in rows |-> Cardinality({k \in keys : row(k) = r})]

\* JobApplication.objects.filter(is_archived=True).count()
ArchivedCount == Cardinality({a \in DOMAIN apps : apps[a].is_archived})

\* GET /api/applications/stats/: JobApplication.objects.count().  (The
\* by_status queryset built next is lazy: nothing is read yet.)
Stats_CountTotal ==
    /\ UNCHANGED <<db, now>>
    /\ Quiet
    /\ Started([op |-> "stats", pc |-> "count_archived",
                total |-> Cardinality(DOMAIN apps), archived |-> 0])

\* JobApplication.objects.filter(is_archived=True).count()
Stats_CountArchived(c) ==
    /\ At(c, "stats", "count_archived")
    /\ UNCHANGED <<db, now>>
    /\ Quiet
    /\ Then(c, [c EXCEPT !.pc = "render", !.archived = ArchivedCount])

\* The response is rendered: the by_status queryset is evaluated now.
Stats_Render(c) ==
    /\ At(c, "stats", "render")
    /\ UNCHANGED <<db, now>>
    /\ Reply("stats", 0, 200,
             [total_applications |-> c.total,
              by_status          |-> ByStatus,
              archived           |-> c.archived])
    /\ Finished(c)

\* --------------------------------------------- ApplicationTimelineViewSet
\* The fields of an ApplicationTimeline body that fail validation: all
\* three are required, application is looked up, event_type is a choice.
EventErrors(d) ==
    (IF "application" \in d.has
     THEN IF d.val.application \in DOMAIN apps THEN {} ELSE {"application"}
     ELSE IF d.partial THEN {} ELSE {"application"})
        \cup (IF "event_type" \in d.has
              THEN IF d.val.event_type \in EVENT_TYPES THEN {} ELSE {"event_type"}
              ELSE IF d.partial THEN {} ELSE {"event_type"})
        \cup (IF "title" \notin d.has /\ ~d.partial THEN {"title"} ELSE {})

\* An ApplicationTimeline instance before any field is assigned.
DefaultEvent == [application |-> 0, event_type |-> "", title |-> "", date |-> 0]

\* serializer.save(): the fields of the body are assigned to the instance.
ApplyToEvent(row, d) ==
    [application |-> IF "application" \in d.has THEN d.val.application ELSE row.application,
     event_type  |-> IF "event_type" \in d.has THEN d.val.event_type ELSE row.event_type,
     title       |-> IF "title" \in d.has THEN d.val.title ELSE row.title,
     date        |-> row.date]

\* INSERT of an ApplicationTimeline instance: auto_now_add sets date.
InsertEvent(pk, row) == events @@ (pk :> [row EXCEPT !.date = now])

\* Mutation: date declared auto_now, not auto_now_add.
UpdateEvent_AutoNow(pk, row) == [events EXCEPT ![pk] = [row EXCEPT !.date = now]]

\* UPDATE of a stored ApplicationTimeline row by save().
UpdateEvent(pk, row) == [events EXCEPT ![pk] = row]

\* POST /api/timeline/: validation (the application is looked up).
EventCreate_Validate(d) ==
    /\ Room
    /\ UNCHANGED <<db, now>>
    /\ IF EventErrors(d) # {}
       THEN /\ Invalid("event_create", 0, EventErrors(d))
            /\ UNCHANGED calls
       ELSE /\ Quiet
            /\ Started([op |-> "event_create", pc |-> "valid", data |-> d])

\* serializer.save() and the response: INSERT.  An application deleted
\* since the validation fails the foreign-key check.
EventCreate_Save(c) ==
    LET E == InsertEvent(nextEvent, ApplyToEvent(DefaultEvent, c.data))
    IN /\ At(c, "event_create", "valid")
       /\ UNCHANGED <<sites, apps, nextSite, nextApp, now>>
       /\ IF ForeignKeyCheck(sites, apps, E)
          THEN /\ events' = E
               /\ nextEvent' = nextEvent + 1
               /\ Reply("event_create", nextEvent, 201,
                        SerializeEvent(nextEvent, E[nextEvent]))
          ELSE /\ UNCHANGED <<events, nextEvent>>
               /\ IntegrityError("event_create", 0)
       /\ Finished(c)

\* get_object() of an ApplicationTimelineViewSet handler.
GetEvent(op, pk) ==
    /\ UNCHANGED <<db, now>>
    /\ IF pk \in DOMAIN events
       THEN /\ Quiet
            /\ Started([op |-> op, pc |-> "loaded", pk |-> pk, event |-> events[pk]])
       ELSE /\ NotFound(op, pk)
            /\ UNCHANGED calls

\* PUT or PATCH /api/timeline/{pk}/: ModelViewSet brings update and
\* partial_update.  get_object().
EventUpdate_GetObject(pk) == GetEvent("event_update", pk)

\* Validation (the application of the body is looked up).
EventUpdate_Validate(c, d) ==
    /\ At(c, "event_update", "loaded")
    /\ UNCHANGED <<db, now>>
    /\ IF EventErrors(d) # {}
       THEN /\ Invalid("event_update", c.pk, EventErrors(d))
            /\ Finished(c)
       ELSE /\ Quiet
            /\ Then(c, [op |-> "event_update", pc |-> "valid", pk |-> c.pk,
                        event |-> ApplyToEvent(c.event, d)])

\* serializer.save() and the response: UPDATE of every column of the
\* instance (date is auto_now_add: not editable, written back as loaded),
\* checked against the foreign key.  Where the UPDATE matches no row,
\* save() goes on to INSERT.
EventUpdate_Save(c) ==
    /\ At(c, "event_update", "valid")
    /\ UNCHANGED <<sites, apps, nextSite, nextApp, nextEvent, now>>
    /\ IF c.pk \notin DOMAIN events
       THEN /\ UNCHANGED events
            /\ Quiet
            /\ Then(c, [c EXCEPT !.pc = "insert"])
       ELSE IF ForeignKeyCheck(sites, apps, UpdateEvent(c.pk, c.event))
       THEN /\ events' = UpdateEvent(c.pk, c.event)
            /\ Reply("event_update", c.pk, 200,
                     SerializeEvent(c.pk, c.event))
            /\ Finished(c)
       ELSE /\ UNCHANGED events
            /\ IntegrityError("event_update", c.pk)
            /\ Finished(c)

\* The INSERT of a save() whose UPDATE matched no row: the event comes
\* back under its old pk with a new date, unless its pk was inserted
\* meanwhile or its application is gone (IntegrityError).
ApplicationTimeline_Insert(c) ==
    /\ At(c, "event_update", "insert")
    /\ UNCHANGED <<sites, apps, nextSite, nextApp, nextEvent, now>>
    /\ IF \/ c.pk \in DOMAIN events
          \/ ~ForeignKeyCheck(sites, apps, InsertEvent(c.pk, c.event))
       THEN /\ UNCHANGED events
            /\ IntegrityError("event_update", c.pk)
       ELSE /\ events' = InsertEvent(c.pk, c.event)
            /\ Reply("event_update", c.pk, 200,
                     SerializeEvent(c.pk, [c.event EXCEPT !.date = now]))
    /\ Finished(c)

\* DELETE /api/timeline/{pk}/: get_object().
EventDelete_GetObject(pk) == GetEvent("event_delete", pk)

\* instance.delete(): one DELETE by pk.
EventDelete_Delete(c) ==
    /\ At(c, "event_delete", "loaded")
    /\ events' = Without(events, {c.pk})
    /\ UNCHANGED <<sites, apps, nextSite, nextApp, nextEvent, now>>
    /\ Reply("event_delete", c.pk, 204, "no_content")
    /\ Finished(c)

\* ------------------------------------------------------------ workloads
\* A workload is the set of steps the modelled clients drive, each step a
\* disjunct of its own; a step that starts a request draws its key or body
\* from the set named there, and is taken while fewer requests than the
\* workload's bound are in progress.

\* Bodies that pass validation whatever is stored, but for the parent key.
PlainSites   == {d \in SitePosts : d.val = SiteVal(ValidSite, FALSE, FALSE)}
FlaggedSites == ValidSiteBodies(SitePosts)
PlainApps    == {d \in AppPosts : d.val.status = "applied" /\ ~d.val.is_archived}
ValidApps    == {d \in AppPosts : d.val.status \in STATUS_CHOICES}
PlainEvents  == {d \in EventPosts : d.val.event_type = "applied"}
Feedbacks    == {d \in EventPosts : d.val.event_type = "feedback"}

\* Bodies with the flags as by default and each choice field as stored by
\* the other bodies or outside its choice set.
ChoiceSites  == {d \in SitePosts : ~d.val.visited /\ ~d.val.is_completed}
ChoiceApps   == {d \in AppPosts : ~d.val.is_archived /\ d.val.status # "rejected"}
ChoiceEvents == {d \in EventPosts : d.val.event_type # "feedback"}

\* The PATCH bodies that set visited, and those that move an application
\* to another site.
FlagPatches == {d \in SitePatches : "visited" \in d.has}
Moves       == {d \in AppPatches : "job_site" \in d.has}

\* The PATCH bodies of an application with a status of the choice set.
AppEdits == {d \in AppPatches : d.val.status \in STATUS_CHOICES}

\* The dashboard and every writing route of job-sites (create, update,
\* delete and the two transitions).
NextDashboard ==
    \/ Open(MaxCalls) /\ DashboardStats_CountTotal
    \/ \E c \in InProgress : DashboardStats_CountVisited(c)
    \/ \E c \in InProgress : DashboardStats_CountCompleted(c)
    \/ Open(MaxCalls) /\ nextSite <= MaxSites /\ \E d \in FlaggedSites, u \in {now} : SiteCreate_Save(d, u)
    \/ \E c \in InProgress : SiteCreate_Data(c)
    \/ Open(MaxCalls) /\ \E pk \in SitePks : SiteUpdate_GetObject(pk)
    \/ \E c \in InProgress, d \in FlaggedSites \cup FlagPatches : SiteUpdate_Save(c, d)
    \/ \E c \in InProgress : SiteUpdate_Data(c)
    \/ Open(MaxCalls) /\ \E pk \in SitePks : SiteDelete_GetObject(pk)
    \/ \E c \in InProgress : SiteDelete_Collect(c)
    \/ \E c \in InProgress : SiteDelete_Delete(c)
    \/ Open(MaxCalls) /\ \E pk \in SitePks : MarkVisited_GetObject(pk)
    \/ \E c \in InProgress : MarkVisited_Save(c)
    \/ Open(MaxCalls) /\ \E pk \in SitePks : MarkCompleted_GetObject(pk)
    \/ \E c \in InProgress : MarkCompleted_Save(c)
    \/ \E c \in InProgress, u \in {now} : JobSite_Insert(c, u)

SpecDashboard == Init /\ [][NextDashboard]_vars

\* The timestamps of a site: the clock and every writing route of
\* job-sites.
NextTimestamps ==
    \/ Tick
    \/ Open(MaxCalls) /\ nextSite <= MaxSites /\ \E d \in PlainSites, u \in Later : SiteCreate_Save(d, u)
    \/ \E c \in InProgress : SiteCreate_Data(c)
    \/ Open(MaxCalls) /\ \E pk \in SitePks : SiteUpdate_GetObject(pk)
    \/ \E c \in InProgress, d \in PlainSites \cup FlagPatches : SiteUpdate_Save(c, d)
    \/ \E c \in InProgress : SiteUpdate_Data(c)
    \/ Open(MaxCalls) /\ \E pk \in SitePks : SiteDelete_GetObject(pk)
    \/ \E c \in InProgress : SiteDelete_Collect(c)
    \/ \E c \in InProgress : SiteDelete_Delete(c)
    \/ Open(MaxCalls) /\ \E pk \in SitePks : MarkVisited_GetObject(pk)
    \/ \E c \in InProgress : MarkVisited_Save(c)
    \/ Open(MaxCalls) /\ \E pk \in SitePks : MarkCompleted_GetObject(pk)
    \/ \E c \in InProgress : MarkCompleted_Save(c)
    \/ \E c \in InProgress, u \in Later : JobSite_Insert(c, u)

SpecTimestamps == Init /\ [][NextTimestamps]_vars

\* Every writing route of job-sites, with a third request in progress: two
\* saves can go on to INSERT the site a delete has removed.
NextRaces ==
    \/ Open(MaxRacing) /\ nextSite <= MaxSites /\ \E d \in PlainSites, u \in {now} : SiteCreate_Save(d, u)
    \/ \E c \in InProgress : SiteCreate_Data(c)
    \/ Open(MaxRacing) /\ \E pk \in SitePks : SiteUpdate_GetObject(pk)
    \/ \E c \in InProgress, d \in FlagPatches : SiteUpdate_Save(c, d)
    \/ \E c \in InProgress : SiteUpdate_Data(c)
    \/ Open(MaxRacing) /\ \E pk \in SitePks : SiteDelete_GetObject(pk)
    \/ \E c \in InProgress : SiteDelete_Collect(c)
    \/ \E c \in InProgress : SiteDelete_Delete(c)
    \/ Open(MaxRacing) /\ \E pk \in SitePks : MarkVisited_GetObject(pk)
    \/ \E c \in InProgress : MarkVisited_Save(c)
    \/ Open(MaxRacing) /\ \E pk \in SitePks : MarkCompleted_GetObject(pk)
    \/ \E c \in InProgress : MarkCompleted_Save(c)
    \/ \E c \in InProgress, u \in {now} : JobSite_Insert(c, u)

SpecRaces == Init /\ [][NextRaces]_vars

\* Every writing route of the three resources: create, update and delete
\* of sites, applications and timeline events, and the four transitions.
NextWriters ==
    \/ Open(MaxCalls) /\ nextSite <= MaxSites /\ \E d \in PlainSites, u \in {now} : SiteCreate_Save(d, u)
    \/ \E c \in InProgress : SiteCreate_Data(c)
    \/ Open(MaxCalls) /\ \E pk \in SitePks : SiteUpdate_GetObject(pk)
    \/ \E c \in InProgress, d \in FlagPatches : SiteUpdate_Save(c, d)
    \/ \E c \in InProgress : SiteUpdate_Data(c)
    \/ Open(MaxCalls) /\ \E pk \in SitePks : SiteDelete_GetObject(pk)
    \/ \E c \in InProgress : SiteDelete_Collect(c)
    \/ \E c \in InProgress : SiteDelete_Delete(c)
    \/ Open(MaxCalls) /\ \E pk \in SitePks : MarkVisited_GetObject(pk)
    \/ \E c \in InProgress : MarkVisited_Save(c)
    \/ Open(MaxCalls) /\ \E pk \in SitePks : MarkCompleted_GetObject(pk)
    \/ \E c \in InProgress : MarkCompleted_Save(c)
    \/ \E c \in InProgress, u \in {now} : JobSite_Insert(c, u)
    \/ Open(MaxCalls) /\ \E d \in PlainApps : AppCreate_Validate(d)
    \/ \E c \in InProgress : AppCreate_Save(c)
    \/ \E c \in InProgress : AppCreate_Data(c)
    \/ Open(MaxCalls) /\ \E pk \in AppPks : AppUpdate_GetObject(pk)
    \/ \E c \in InProgress, d \in Moves : AppUpdate_Validate(c, d)
    \/ \E c \in InProgress : AppUpdate_Save(c)
    \/ \E c \in InProgress : AppUpdate_Data(c)
    \/ Open(MaxCalls) /\ \E pk \in AppPks : AppDelete_GetObject(pk)
    \/ \E c \in InProgress : AppDelete_Delete(c)
    \/ Open(MaxCalls) /\ \E pk \in AppPks : Archive_GetObject(pk)
    \/ \E c \in InProgress : Archive_Save(c)
    \/ Open(MaxCalls) /\ \E pk \in AppPks : Unarchive_GetObject(pk)
    \/ \E c \in InProgress : Unarchive_Save(c)
    \/ \E c \in InProgress : JobApplication_Insert(c)
    \/ Open(MaxCalls) /\ \E d \in PlainEvents : EventCreate_Validate(d)
    \/ \E c \in InProgress : EventCreate_Save(c)
    \/ Open(MaxCalls) /\ \E pk \in EventPks : EventUpdate_GetObject(pk)
    \/ \E c \in InProgress, d \in Feedbacks : EventUpdate_Validate(c, d)
    \/ \E c \in InProgress : EventUpdate_Save(c)
    \/ \E c \in InProgress : ApplicationTimeline_Insert(c)
    \/ Open(MaxCalls) /\ \E pk \in EventPks : EventDelete_GetObject(pk)
    \/ \E c \in InProgress : EventDelete_Delete(c)

SpecWriters == Init /\ [][NextWriters]_vars

\* The choice fields: every writing route of the three resources, the
\* creates and updates with valid and invalid bodies.
NextChoices ==
    \/ Open(MaxCalls) /\ nextSite <= MaxSites /\ \E d \in ChoiceSites, u \in {now} : SiteCreate_Save(d, u)
    \/ \E c \in InProgress : SiteCreate_Data(c)
    \/ Open(MaxCalls) /\ \E pk \in SitePks : SiteUpdate_GetObject(pk)
    \/ \E c \in InProgress, d \in ChoiceSites : SiteUpdate_Save(c, d)
    \/ \E c \in InProgress : SiteUpdate_Data(c)
    \/ Open(MaxCalls) /\ \E pk \in SitePks : SiteDelete_GetObject(pk)
    \/ \E c \in InProgress : SiteDelete_Collect(c)
    \/ \E c \in InProgress : SiteDelete_Delete(c)
    \/ Open(MaxCalls) /\ \E pk \in SitePks : MarkVisited_GetObject(pk)
    \/ \E c \in InProgress : MarkVisited_Save(c)
    \/ Open(MaxCalls) /\ \E pk \in SitePks : MarkCompleted_GetObject(pk)
    \/ \E c \in InProgress : MarkCompleted_Save(c)
    \/ \E c \in InProgress, u \in {now} : JobSite_Insert(c, u)
    \/ Open(MaxCalls) /\ \E d \in ChoiceApps : AppCreate_Validate(d)
    \/ \E c \in InProgress : AppCreate_Save(c)
    \/ \E c \in InProgress : AppCreate_Data(c)
    \/ Open(MaxCalls) /\ \E pk \in AppPks : AppUpdate_GetObject(pk)
    \/ \E c \in InProgress, d \in ChoiceApps : AppUpdate_Validate(c, d)
    \/ \E c \in InProgress : AppUpdate_Save(c)
    \/ \E c \in InProgress : AppUpdate_Data(c)
    \/ Open(MaxCalls) /\ \E pk \in AppPks : AppDelete_GetObject(pk)
    \/ \E c \in InProgress : AppDelete_Delete(c)
    \/ Open(MaxCalls) /\ \E pk \in AppPks : Archive_GetObject(pk)
    \/ \E c \in InProgress : Archive_Save(c)
    \/ Open(MaxCalls) /\ \E pk \in AppPks : Unarchive_GetObject(pk)
    \/ \E c \in InProgress : Unarchive_Save(c)
    \/ \E c \in InProgress : JobApplication_Insert(c)
    \/ Open(MaxCalls) /\ \E d \in ChoiceEvents : EventCreate_Validate(d)
    \/ \E c \in InProgress : EventCreate_Save(c)
    \/ Open(MaxCalls) /\ \E pk \in EventPks : EventUpdate_GetObject(pk)
    \/ \E c \in InProgress, d \in ChoiceEvents : EventUpdate_Validate(c, d)
    \/ \E c \in InProgress : EventUpdate_Save(c)
    \/ \E c \in InProgress : ApplicationTimeline_Insert(c)
    \/ Open(MaxCalls) /\ \E pk \in EventPks : EventDelete_GetObject(pk)
    \/ \E c \in InProgress : EventDelete_Delete(c)

SpecChoices == Init /\ [][NextChoices]_vars

\* The two reports over the applications, with the clock, every writing
\* route of applications and of timeline events, and the create and delete
\* of sites.
NextApplications ==
    \/ Tick
    \/ Open(MaxCalls) /\ \E d \in PlainSites, u \in {now} : SiteCreate_Save(d, u)
    \/ \E c \in InProgress : SiteCreate_Data(c)
    \/ Open(MaxCalls) /\ \E pk \in SitePks : SiteDelete_GetObject(pk)
    \/ \E c \in InProgress : SiteDelete_Collect(c)
    \/ \E c \in InProgress : SiteDelete_Delete(c)
    \/ Open(MaxCalls) /\ \E d \in ValidApps : AppCreate_Validate(d)
    \/ \E c \in InProgress : AppCreate_Save(c)
    \/ \E c \in InProgress : AppCreate_Data(c)
    \/ Open(MaxCalls) /\ \E pk \in AppPks : AppUpdate_GetObject(pk)
    \/ \E c \in InProgress, d \in AppEdits : AppUpdate_Validate(c, d)
    \/ \E c \in InProgress : AppUpdate_Save(c)
    \/ \E c \in InProgress : AppUpdate_Data(c)
    \/ Open(MaxCalls) /\ \E pk \in AppPks : AppDelete_GetObject(pk)
    \/ \E c \in InProgress : AppDelete_Delete(c)
    \/ Open(MaxCalls) /\ \E pk \in AppPks : Archive_GetObject(pk)
    \/ \E c \in InProgress : Archive_Save(c)
    \/ Open(MaxCalls) /\ \E pk \in AppPks : Unarchive_GetObject(pk)
    \/ \E c \in InProgress : Unarchive_Save(c)
    \/ \E c \in InProgress : JobApplication_Insert(c)
    \/ Open(MaxCalls) /\ \E d \in PlainEvents : EventCreate_Validate(d)
    \/ \E c \in InProgress : EventCreate_Save(c)
    \/ Open(MaxCalls) /\ \E pk \in EventPks : EventUpdate_GetObject(pk)
    \/ \E c \in InProgress, d \in Feedbacks : EventUpdate_Validate(c, d)
    \/ \E c \in InProgress : EventUpdate_Save(c)
    \/ \E c \in InProgress : ApplicationTimeline_Insert(c)
    \/ Open(MaxCalls) /\ \E pk \in EventPks : EventDelete_GetObject(pk)
    \/ \E c \in InProgress : EventDelete_Delete(c)
    \/ Open(MaxCalls) /\ AppTimeline_List
    \/ \E c \in InProgress : AppTimeline_Nested(c)
    \/ Open(MaxCalls) /\ Stats_CountTotal
    \/ \E c \in InProgress : Stats_CountArchived(c)
    \/ \E c \in InProgress : Stats_Render(c)

SpecApplications == Init /\ [][NextApplications]_vars

\* The timeline events: the clock, every writing route of timeline events
\* and of applications, and the create and delete of sites.
NextEvents ==
    \/ Tick
    \/ Open(MaxCalls) /\ \E d \in PlainSites, u \in {now} : SiteCreate_Save(d, u)
    \/ \E c \in InProgress : SiteCreate_Data(c)
    \/ Open(MaxCalls) /\ \E pk \in SitePks : SiteDelete_GetObject(pk)
    \/ \E c \in InProgress : SiteDelete_Collect(c)
    \/ \E c \in InProgress : SiteDelete_Delete(c)
    \/ Open(MaxCalls) /\ \E d \in PlainApps : AppCreate_Validate(d)
    \/ \E c \in InProgress : AppCreate_Save(c)
    \/ \E c \in InProgress : AppCreate_Data(c)
    \/ Open(MaxCalls) /\ \E pk \in AppPks : AppUpdate_GetObject(pk)
    \/ \E c \in InProgress, d \in Moves : AppUpdate_Validate(c, d)
    \/ \E c \in InProgress : AppUpdate_Save(c)
    \/ \E c \in InProgress : AppUpdate_Data(c)
    \/ Open(MaxCalls) /\ \E pk \in AppPks : AppDelete_GetObject(pk)
    \/ \E c \in InProgress : AppDelete_Delete(c)
    \/ Open(MaxCalls) /\ \E pk \in AppPks : Archive_GetObject(pk)
    \/ \E c \in InProgress : Archive_Save(c)
    \/ Open(MaxCalls) /\ \E pk \in AppPks : Unarchive_GetObject(pk)
    \/ \E c \in InProgress : Unarchive_Save(c)
    \/ \E c \in InProgress : JobApplication_Insert(c)
    \/ Open(MaxCalls) /\ \E d \in PlainEvents : EventCreate_Validate(d)
    \/ \E c \in InProgress : EventCreate_Save(c)
    \/ Open(MaxCalls) /\ \E pk \in EventPks : EventUpdate_GetObject(pk)
    \/ \E c \in InProgress, d \in Feedbacks : EventUpdate_Validate(c, d)
    \/ \E c \in InProgress : EventUpdate_Save(c)
    \/ \E c \in InProgress : ApplicationTimeline_Insert(c)
    \/ Open(MaxCalls) /\ \E pk \in EventPks : EventDelete_GetObject(pk)
    \/ \E c \in InProgress : EventDelete_Delete(c)

SpecEvents == Init /\ [][NextEvents]_vars

\* ------------------------------------------------------------ properties
\* The step answers a request op.  (A step that answers nothing clears
\* req, so the request of an earlier step is not taken for this one's.)
Responds(op) == req'.op = op

\* The step is one of the request that held c: c has moved on or ended.
\* (The step of one request changes what another holds only where that is
\* a dashboard_stats call, which sees the table change.)
Left(c) == CopiesIn(c, calls') < CopiesIn(c, calls)

\* The requests that come to hold something new by the step: the request
\* the step starts or moves on.
Entered(op) == {c \in BagToSet(calls') :
                   c.op = op /\ CopiesIn(c, calls') > CopiesIn(c, calls)}

\* What the answering request held before the step, where it had started.
Callers == {c \in InProgress : c.op = req'.op /\ Left(c)}
Caller  == CHOOSE c \in Callers : TRUE

\* The step is the first of its request: a lookup or a validation.
FirstStep == Callers = {}

SiteTransitions == {"mark_visited", "mark_completed"}
AppTransitions  == {"archive", "unarchive"}

\* The flag of each transition and the value it gives it.
Flag   == [mark_visited |-> "visited", mark_completed |-> "is_completed",
           archive |-> "is_archived", unarchive |-> "is_archived"]
Target == [mark_visited |-> TRUE, mark_completed |-> TRUE,
           archive |-> TRUE, unarchive |-> FALSE]

\* ---------------------------------------------------------------------- C1
\* C1: a completed delete of a site removes exactly that site, the
\* applications that referenced it and the timeline events that referenced
\* those applications; a completed delete of an application removes
\* exactly it and the timeline events that referenced it.  Every other
\* row, a row of another site or application among them, stays.
C1_CascadeClosure ==
    [][ /\ (Responds("site_delete") /\ resp'.code = 204) =>
              LET s     == req'.pk
                  goneA == {a \in DOMAIN apps : apps[a].job_site = s}
                  goneE == {e \in DOMAIN events : events[e].application \in goneA}
              IN /\ sites'  = Without(sites, {s})
                 /\ apps'   = Without(apps, goneA)
                 /\ events' = Without(events, goneE)
        /\ (Responds("app_delete") /\ resp'.code = 204) =>
              LET a     == req'.pk
                  goneE == {e \in DOMAIN events : events[e].application = a}
              IN /\ sites'  = sites
                 /\ apps'   = Without(apps, {a})
                 /\ events' = Without(events, goneE)
      ]_vars

\* ---------------------------------------------------------------------- C2
\* C2: in every state, between any two queries of any requests, every
\* application references a stored site and every timeline event a stored
\* application.
C2_ReferentialIntegrity ==
    /\ \A a \in DOMAIN apps : apps[a].job_site \in DOMAIN sites
    /\ \A e \in DOMAIN events : events[e].application \in DOMAIN apps

\* A site was deleted with its application while a create of another
\* application of that site has passed validation and not yet inserted.
C2_Witness ==
    /\ req.op = "site_delete" /\ resp.code = 204
    /\ nextApp = 2 /\ DOMAIN apps = {}
    /\ \E c \in InProgress : /\ At(c, "app_create", "valid")
                             /\ c.data.val.job_site = req.pk

\* ---------------------------------------------------------------------- C3
\* C3: the validation of a create whose parent key names no stored row (an
\* application's job_site, a timeline event's application) is answered
\* with NotFound (404), and no table and no key counter changes.
C3_NotFoundOnCreate ==
    [][ /\ (Responds("app_create") /\ FirstStep) =>
              \A d \in AppPosts :
                  (d.val.job_site \notin DOMAIN sites /\ AppCreate_Validate(d)) =>
                      (resp'.code = 404 /\ UNCHANGED db)
        /\ (Responds("event_create") /\ FirstStep) =>
              \A d \in EventPosts :
                  (d.val.application \notin DOMAIN apps /\ EventCreate_Validate(d)) =>
                      (resp'.code = 404 /\ UNCHANGED db)
      ]_vars

\* ---------------------------------------------------------------------- C4
\* C4: the queryset of the timeline listing holds every application with
\* is_archived false exactly once, as stored, none with is_archived true,
\* by applied_date descending; and the response lists those applications,
\* all of them, in that order.
C4_TimelineListing ==
    [][ /\ \A c \in Entered("timeline") :
              c.body = <<>> =>
                  LET r == c.rows
                  IN /\ {r[k].id : k \in DOMAIN r} =
                            {a \in DOMAIN apps : apps[a].is_archived = FALSE}
                     /\ \A j, k \in DOMAIN r : j # k => r[j].id # r[k].id
                     /\ \A k \in DOMAIN r : r[k].app = apps[r[k].id]
                     /\ \A j, k \in DOMAIN r :
                            j < k => r[j].app.applied_date >= r[k].app.applied_date
        /\ (Responds("timeline") /\ FirstStep) =>
              /\ resp'.code = 200
              /\ resp'.body = <<>>
              /\ {a \in DOMAIN apps : apps[a].is_archived = FALSE} = {}
        /\ (Responds("timeline") /\ ~FirstStep) =>
              LET r == Caller.rows
                  b == resp'.body
              IN /\ resp'.code = 200
                 /\ Len(b) = Len(r)
                 /\ \A k \in DOMAIN r : /\ b[k].id = r[k].id
                                        /\ b[k].is_archived = FALSE
                                        /\ b[k].applied_date = r[k].app.applied_date
      ]_vars

\* Two applications are listed, the later one first.
C4_Witness ==
    /\ req.op = "timeline"
    /\ Len(resp.body) = 2
    /\ resp.body[1].id = 2 /\ resp.body[2].id = 1
    /\ resp.body[1].applied_date > resp.body[2].applied_date

\* ---------------------------------------------------------------------- C5
\* C5: total_sites is the number of sites its query counts, visited_sites
\* the number of visited sites its query counts, completed_sites the
\* number of completed sites its query counts, and pending_sites =
\* total_sites - visited_sites, whatever completed_sites is.
C5_DashboardStats ==
    [][ /\ sites' = sites =>
              \A c \in Entered("dashboard_stats") :
                  /\ c.pc = "count_visited" => c.total = Cardinality(DOMAIN sites)
                  /\ c.pc = "count_completed" =>
                        c.visited = Cardinality({s \in DOMAIN sites : sites[s].visited})
        /\ Responds("dashboard_stats") =>
              LET b == resp'.body
              IN /\ resp'.code = 200
                 /\ b.total_sites     = Caller.total
                 /\ b.visited_sites   = Caller.visited
                 /\ b.completed_sites =
                        Cardinality({s \in DOMAIN sites : sites[s].is_completed})
                 /\ b.pending_sites   = b.total_sites - b.visited_sites
      ]_vars

\* Two sites, one visited only and one completed only: 2, 1, 1, 1.
C5_Witness ==
    /\ req.op = "dashboard_stats"
    /\ resp.body = [total_sites |-> 2, visited_sites |-> 1,
                    completed_sites |-> 1, pending_sites |-> 1]
    /\ \E s \in DOMAIN sites : sites[s].is_completed /\ ~sites[s].visited
    /\ \E s \in DOMAIN sites : ~sites[s].is_completed /\ sites[s].visited

\* ---------------------------------------------------------------------- C6
RECURSIVE SumCounts(_, _)
\* The sum of the count column over the rows R of the bag B.
SumCounts(B, R) ==
    IF R = {} THEN 0
    ELSE LET r == CHOOSE x \in R : TRUE
         IN r.count * B[r] + SumCounts(B, R \ {r})

\* C6: in the stats report total_applications is the number of
\* applications its query counts and archived the number of archived ones
\* its query counts; by_status has one row per status some application
\* holds, each with the number of applications holding it (never 0); and
\* the counts of by_status add up to total_applications.
C6_ApplicationStats ==
    [][ /\ \A c \in Entered("stats") :
              /\ c.pc = "count_archived" => c.total = Cardinality(DOMAIN apps)
              /\ c.pc = "render" =>
                    c.archived = Cardinality({a \in DOMAIN apps : apps[a].is_archived})
        /\ Responds("stats") =>
              LET b    == resp'.body
                  rows == BagToSet(b.by_status)
              IN /\ b.total_applications = Caller.total
                 /\ b.archived = Caller.archived
                 /\ \A r \in rows :
                       /\ CopiesIn(r, b.by_status) = 1
                       /\ r.count > 0
                       /\ r.count = Cardinality({a \in DOMAIN apps :
                                                    apps[a].status = r.status})
                 /\ \A r1, r2 \in rows : r1.status = r2.status => r1 = r2
                 /\ {r.status : r \in rows} = {apps[a].status : a \in DOMAIN apps}
                 /\ SumCounts(b.by_status, rows) = b.total_applications
      ]_vars

\* ---------------------------------------------------------------------- C7
\* C7: a transition is refused at its lookup for no reason but a missing
\* row, and its save on a stored row answers 200 with its acknowledgement
\* and leaves the flag at the target value, whatever the flag was before;
\* so a second application in a row answers and ends as the first did.
C7_Idempotent ==
    [][ /\ \A op \in SiteTransitions :
              /\ (Responds(op) /\ FirstStep) => req'.pk \notin DOMAIN sites
              /\ (Responds(op) /\ ~FirstStep /\ Caller.pc = "loaded"
                      /\ req'.pk \in DOMAIN sites) =>
                    /\ resp'.code = 200
                    /\ resp'.body = Ack[op]
                    /\ req'.pk \in DOMAIN sites'
                    /\ sites'[req'.pk][Flag[op]] = Target[op]
              /\ \A c \in InProgress :
                    (At(c, op, "loaded") /\ c.pk \in DOMAIN sites /\ Left(c)) =>
                        (Responds(op) /\ req'.pk = c.pk)
        /\ \A op \in AppTransitions :
              /\ (Responds(op) /\ FirstStep) => req'.pk \notin DOMAIN apps
              /\ (Responds(op) /\ ~FirstStep /\ Caller.pc = "loaded"
                      /\ req'.pk \in DOMAIN apps) =>
                    /\ resp'.code = 200
                    /\ resp'.body = Ack[op]
                    /\ req'.pk \in DOMAIN apps'
                    /\ apps'[req'.pk][Flag[op]] = Target[op]
              /\ \A c \in InProgress :
                    (At(c, op, "loaded") /\ c.pk \in DOMAIN apps /\ Left(c)) =>
                        (Responds(op) /\ req'.pk = c.pk)
      ]_vars

\* ---------------------------------------------------------------------- C8
\* C8: a transition that answers with success has changed the flag of its
\* row and nothing else, but for updated_at of the target site: no other
\* column, no other row, no other table, no key counter; no row is
\* created or deleted.
C8_Frame ==
    [][ /\ \A op \in SiteTransitions :
              (Responds(op) /\ resp'.code = 200) =>
                  /\ UNCHANGED <<apps, events, nextSite, nextApp, nextEvent>>
                  /\ DOMAIN sites' = DOMAIN sites
                  /\ req'.pk \in DOMAIN sites
                  /\ \A s \in DOMAIN sites : s # req'.pk => sites'[s] = sites[s]
                  /\ LET old == sites[req'.pk]
                         new == sites'[req'.pk]
                     IN /\ \A f \in {"site_type", "country", "language", "work_area"} :
                              new[f] = old[f]
                        /\ new.created_at = old.created_at
                        /\ op = "mark_visited" => new.is_completed = old.is_completed
                        /\ op = "mark_completed" => new.visited = old.visited
        /\ \A op \in AppTransitions :
              (Responds(op) /\ resp'.code = 200) =>
                  /\ UNCHANGED <<sites, events, nextSite, nextApp, nextEvent>>
                  /\ DOMAIN apps' = DOMAIN apps
                  /\ req'.pk \in DOMAIN apps
                  /\ \A a \in DOMAIN apps : a # req'.pk => apps'[a] = apps[a]
                  /\ LET old == apps[req'.pk]
                         new == apps'[req'.pk]
                     IN /\ new.status = old.status
                        /\ new.job_site = old.job_site
                        /\ new.applied_date = old.applied_date
      ]_vars

\* ---------------------------------------------------------------------- C9
\* C9: the lookup of a transition on a key with no stored row of its table
\* is answered 404, without the acknowledgement, ends the request and
\* changes nothing; a transition goes on past its lookup only with a
\* stored row.
C9_NotFound ==
    [][ /\ \A op \in SiteTransitions :
              /\ (Responds(op) /\ FirstStep) =>
                    /\ req'.pk \notin DOMAIN sites
                    /\ resp'.code = 404
                    /\ resp'.body # Ack[op]
                    /\ UNCHANGED db
                    /\ calls' = calls
              /\ \A c \in Entered(op) :
                    c.pc = "loaded" => (c.pk \in DOMAIN sites /\ UNCHANGED db)
        /\ \A op \in AppTransitions :
              /\ (Responds(op) /\ FirstStep) =>
                    /\ req'.pk \notin DOMAIN apps
                    /\ resp'.code = 404
                    /\ resp'.body # Ack[op]
                    /\ UNCHANGED db
                    /\ calls' = calls
              /\ \A c \in Entered(op) :
                    c.pc = "loaded" => (c.pk \in DOMAIN apps /\ UNCHANGED db)
      ]_vars

\* unarchive was refused for a key whose row was deleted, other rows stored.
C9_Witness ==
    /\ req.op = "unarchive" /\ resp.code = 404
    /\ req.pk < nextApp
    /\ DOMAIN apps # {}

\* --------------------------------------------------------------------- C10
\* C10 as stated: a stored timeline event never changes.
C10_EventImmutable ==
    [][\A e \in DOMAIN events \cap DOMAIN events' : events'[e] = events[e]]_vars

\* C10 as amended: a stored timeline event changes only by a successful
\* update request addressed to it, and the date such an update writes is
\* the date it loaded, never one of its body.
C10_EventChangedByUpdateOnly ==
    [][\A e \in DOMAIN events \cap DOMAIN events' :
          events'[e] # events[e] =>
              /\ Responds("event_update")
              /\ req'.pk = e
              /\ resp'.code = 200
              /\ events'[e].date = Caller.event.date
              /\ resp'.body.date = Caller.event.date
      ]_vars

\* An event was updated after the clock had moved on from its creation: it
\* has another event_type and its old date.
C10_Witness ==
    /\ req.op = "event_update" /\ resp.code = 200
    /\ req.pk \in DOMAIN events
    /\ events[req.pk].date < now
    /\ events[req.pk].event_type = "feedback"
    /\ resp.body.event_type = "feedback"
    /\ resp.body.date = events[req.pk].date

\* --------------------------------------------------------------------- C11
\* Every stored choice field holds a member of its choice set.
EnumsInRange ==
    /\ \A s \in DOMAIN sites :
          /\ sites[s].site_type \in SITE_TYPES
          /\ sites[s].country   \in COUNTRIES
          /\ sites[s].language  \in LANGUAGES
          /\ sites[s].work_area \in WORK_AREAS
    /\ \A a \in DOMAIN apps : apps[a].status \in STATUS_CHOICES
    /\ \A e \in DOMAIN events : events[e].event_type \in EVENT_TYPES

\* The bodies of the modelled clients with a choice field outside its set.
BadSites  == (SitePuts \cup SitePatches) \ ValidSiteBodies(SitePuts \cup SitePatches)
BadApps   == {d \in AppPosts \cup AppPatches :
                 "status" \in d.has /\ d.val.status \notin STATUS_CHOICES}
BadEvents == {d \in EventPosts : d.val.event_type \notin EVENT_TYPES}

\* C11: the step that validates a create, or an update of a loaded row,
\* with a choice field outside its choice set answers 400; a step that
\* answers 400 stores nothing; and after every step (the saves of the
\* transitions included) every stored choice field is inside its set.
C11_EnumsStayInRange ==
    [][ /\ EnumsInRange'
        /\ resp'.code = 400 => UNCHANGED db
        /\ (nextSite' # nextSite \/ Responds("site_create")) =>
              \A d \in BadSites \cap SitePosts :
                  SiteCreate_Save(d, now) => resp'.code = 400
        /\ (Responds("app_create") /\ FirstStep) =>
              \A d \in BadApps \cap AppPosts : AppCreate_Validate(d) => resp'.code = 400
        /\ (Responds("event_create") /\ FirstStep) =>
              \A d \in BadEvents : EventCreate_Validate(d) => resp'.code = 400
        /\ \A c \in InProgress :
              /\ (At(c, "site_update", "loaded") /\ Left(c)) =>
                    \A d \in BadSites : SiteUpdate_Save(c, d) => resp'.code = 400
              /\ (At(c, "app_update", "loaded") /\ Left(c)) =>
                    \A d \in BadApps : AppUpdate_Validate(c, d) => resp'.code = 400
              /\ (At(c, "event_update", "loaded") /\ Left(c)) =>
                    \A d \in BadEvents : EventUpdate_Validate(c, d) => resp'.code = 400
      ]_vars

\* An update of a stored site was refused for its country alone; the site
\* has been through a transition.
C11_Witness ==
    /\ req.op = "site_update" /\ resp.code = 400
    /\ resp.body = {"country"}
    /\ req.pk \in DOMAIN sites
    /\ sites[req.pk].visited
    /\ sites[req.pk].country = "US"

\* --------------------------------------------------------------------- C12
\* C12: the four counts of a dashboard_stats response are the counts of one
\* state the JobSite table was in during the call, whatever creates,
\* deletes and transitions ran between its three count queries; so
\* 0 <= visited_sites <= total_sites, 0 <= completed_sites <= total_sites
\* and pending_sites >= 0.
C12_DashboardSnapshot ==
    [][ (Responds("dashboard_stats") /\ resp'.code = 200) =>
            /\ \E s \in Caller.seen :
                  /\ resp'.body.total_sites     = s.total
                  /\ resp'.body.visited_sites   = s.visited
                  /\ resp'.body.completed_sites = s.completed
                  /\ resp'.body.pending_sites   = s.total - s.visited
            /\ 0 <= resp'.body.visited_sites
            /\ resp'.body.visited_sites <= resp'.body.total_sites
            /\ 0 <= resp'.body.completed_sites
            /\ resp'.body.completed_sites <= resp'.body.total_sites
            /\ resp'.body.pending_sites >= 0
      ]_vars

\* --------------------------------------------------------------------- C13
\* C13: the save of a successful mark_visited or mark_completed on a stored
\* site never writes back a stale value of the other flag: a flag that is
\* set stays set, so once both requests have answered with success the
\* site is visited and completed, whatever the order of their steps.
C13_NoLostUpdate ==
    [][ \A op \in SiteTransitions :
            (Responds(op) /\ resp'.code = 200 /\ req'.pk \in DOMAIN sites) =>
                /\ req'.pk \in DOMAIN sites'
                /\ sites[req'.pk].visited => sites'[req'.pk].visited
                /\ sites[req'.pk].is_completed => sites'[req'.pk].is_completed
      ]_vars

\* --------------------------------------------------------------------- C14
\* The requests that persist a change of the site they address.
SiteMutations == {"site_update", "mark_visited", "mark_completed"}

\* C14: a stored row keeps its creation timestamp, also through the save
\* of an update or transition that loaded it; every save of a site sets
\* its updated_at to the current time, also when no flag changes;
\* updated_at never decreases and is never before created_at.
C14_Timestamps ==
    [][ /\ \A s \in DOMAIN sites' :
              /\ sites'[s].updated_at >= sites'[s].created_at
              /\ s \in DOMAIN sites =>
                    /\ sites'[s].created_at = sites[s].created_at
                    /\ sites'[s].updated_at >= sites[s].updated_at
                    /\ sites'[s] # sites[s] => sites'[s].updated_at = now
        /\ \A c \in InProgress :
              (/\ c.op \in SiteMutations
               /\ c.pk \in DOMAIN sites'
               /\ sites' # sites
               /\ Left(c)) =>
                  /\ sites'[c.pk].created_at = c.site.created_at
                  /\ sites'[c.pk].updated_at >= now
        /\ \A a \in DOMAIN apps \cap DOMAIN apps' :
              apps'[a].applied_date = apps[a].applied_date
        /\ \A e \in DOMAIN events \cap DOMAIN events' :
              events'[e].date = events[e].date
      ]_vars

====
